---- MODULE Spec2Model ----
\* Model of OpenAeroVTOL/src/pid.c: Sensor_PID (run every loop) and
\* Calculate_PID (run just before PWM output), with the integer widths of the
\* AVR build (int is 16 bits, int32_t is 32 bits) and the float state held in
\* fixed point.
EXTENDS Integers, Sequences, FiniteSets, TLC

\* ---------------------------------------------------------------- bounds
\* Sensor_PID calls in one run of Spec
MaxTicks == 2
\* Sensor_PID calls between two Calculate_PID calls (LoopCount cap)
MaxLoop == 2
\* Calculate_PID calls in one run of Spec
MaxCalcs == 2
\* Sensor_PID calls in one run of SpecPeriod
MaxPeriodTicks == 4
\* resolution of the fixed-point stand-in for float: one unit is 1/FloatRes
FloatRes == 100

\* ---------------------------------------------------------------- program constants
PID_SCALE == 6
STANDARDLOOP == 3571
\* divisor of Config.AccVertFilter in the decimator
DECAY_DIV == 10000

P1 == "P1"
P2 == "P2"
ROLL == "ROLL"
PITCH == "PITCH"
YAW == "YAW"
ZED == "ZED"
NOFILTER == "NOFILTER"

Profiles == {P1, P2}
Axes == {ROLL, PITCH, YAW}

\* ---------------------------------------------------------------- C arithmetic
Abs(x) == IF x < 0 THEN -x ELSE x

Pow2(n) == IF n = 0 THEN 1 ELSE IF n = 1 THEN 2 ELSE IF n = 2 THEN 4
           ELSE IF n = 3 THEN 8 ELSE IF n = 4 THEN 16 ELSE IF n = 5 THEN 32
           ELSE IF n = 6 THEN 64 ELSE IF n = 7 THEN 128 ELSE 256

\* value kept in a 16-bit two's complement object (int16_t, or int on the AVR)
Wrap16(x) == ((x + 32768) % 65536) - 32768

\* value kept in an int32_t. TLC's own integers are 32 bits wide and it stops
\* with an error on any overflow, so a run that completes has shown that no
\* int32_t of the program left its range; the value is passed through.
Wrap32(x) == x

FitsInt(x) == x >= -32768 /\ x <= 32767

\* result of an int (16-bit) multiplication, addition or subtraction whose
\* mathematical value is v. Signed overflow is undefined: the build either
\* keeps the low 16 bits or computes in a wider register (wide).
IntArith(v, wide) == IF FitsInt(v) \/ wide THEN v ELSE Wrap16(v)

\* x >> n on a signed value (arithmetic shift: floor division)
Shr(x, n) == x \div Pow2(n)

\* x << n on an int, stored in an int16_t (gcc keeps the low 16 bits)
Shl16(x, n) == Wrap16(x * Pow2(n))

\* C division, truncating toward zero (b > 0)
TruncDiv(a, b) == IF a >= 0 THEN a \div b ELSE -((-a) \div b)

\* float division or product rounded to the nearest representable value (b > 0)
RoundDiv(a, b) == IF a >= 0 THEN (2 * a + b) \div (2 * b) ELSE -((2 * (-a) + b) \div (2 * b))

\* (int16_t) / (int32_t) of a float held in units of 1/FloatRes
FloatToInt(f) == TruncDiv(f, FloatRes)

\* promotion of an integer to float
IntToFloat(i) == i * FloatRes

\* ---------------------------------------------------------------- configuration
\* Config is written by the menu and eeprom code, which pid.c only reads. The
\* presets below are full settings of the fields pid.c uses. Gains are int8_t,
\* the rate settings 0..7, Raw_I_Constrain and Raw_I_Limits non-negative int32_t.
CfgNominal ==
    [ Rate |-> [P1 |-> [ROLL |-> 6, PITCH |-> 2, YAW |-> 7],
                P2 |-> [ROLL |-> 0, PITCH |-> 7, YAW |-> 3]],
      P_mult |-> [P1 |-> [ROLL |-> 10, PITCH |-> 10, YAW |-> 10],
                  P2 |-> [ROLL |-> 127, PITCH |-> 10, YAW |-> 40]],
      I_mult |-> [P1 |-> [ROLL |-> 0, PITCH |-> 20, YAW |-> 0, ZED |-> 10],
                  P2 |-> [ROLL |-> 40, PITCH |-> 0, YAW |-> 20, ZED |-> 0]],
      L_mult |-> [P1 |-> [ROLL |-> 10, PITCH |-> 60, YAW |-> 20],
                  P2 |-> [ROLL |-> 0, PITCH |-> 10, YAW |-> 5]],
      Yaw_trim |-> [P1 |-> 5, P2 |-> -3],
      L_trim |-> [P1 |-> [ROLL |-> 100, PITCH |-> -50],
                  P2 |-> [ROLL |-> 0, PITCH |-> 25]],
      Raw_I_Constrain |-> [P1 |-> [ROLL |-> 20000, PITCH |-> 1000, YAW |-> 5000, ZED |-> 90],
                           P2 |-> [ROLL |-> 1000, PITCH |-> 20000, YAW |-> 900, ZED |-> 60]],
      Raw_I_Limits |-> [P1 |-> [ROLL |-> 5000, PITCH |-> 300, YAW |-> 5000, ZED |-> 40],
                        P2 |-> [ROLL |-> 300, PITCH |-> 5000, YAW |-> 200, ZED |-> 200]],
      AccVertFilter |-> 100,
      Gyro_LPF |-> NOFILTER,
      Servo_fast |-> FALSE ]

\* every gain zero; trims, limits and rates arbitrary
CfgZeroGains ==
    [ CfgNominal EXCEPT
        !.P_mult = [p \in Profiles |-> [a \in Axes |-> 0]],
        !.I_mult = [p \in Profiles |-> [a \in Axes \cup {ZED} |-> 0]],
        !.L_mult = [p \in Profiles |-> [a \in Axes |-> 0]],
        !.Gyro_LPF = "LPF" ]

\* every gain zero and no yaw trim
CfgZeroGainsNoTrim ==
    [ CfgZeroGains EXCEPT
        !.Yaw_trim = [p \in Profiles |-> 0],
        !.AccVertFilter = 0,
        !.Gyro_LPF = NOFILTER ]

\* maximum gains, tight integral constraints, smoothing on, fast servo rate
CfgTight ==
    [ CfgNominal EXCEPT
        !.P_mult = [p \in Profiles |-> [a \in Axes |-> IF p = P1 THEN 127 ELSE -127]],
        !.I_mult = [p \in Profiles |-> [a \in Axes \cup {ZED} |-> 127]],
        !.Raw_I_Constrain = [p \in Profiles |-> [a \in Axes \cup {ZED} |-> IF p = P1 THEN 150 ELSE 0]],
        !.Raw_I_Limits = [p \in Profiles |-> [a \in Axes \cup {ZED} |-> IF p = P1 THEN 100 ELSE 700]],
        !.Yaw_trim = [p \in Profiles |-> 0],
        !.AccVertFilter = 127,
        !.Gyro_LPF = "LPF",
        !.Servo_fast = TRUE ]

\* integral constraints wide enough that no clamp acts
CfgWide ==
    [ CfgNominal EXCEPT
        !.Raw_I_Constrain = [p \in Profiles |-> [a \in Axes \cup {ZED} |-> 2000000]] ]

Configs == {CfgNominal, CfgZeroGains, CfgZeroGainsNoTrim, CfgTight}

\* LPF_lookup[] and LPF_lookup_HS[] (flash tables of filter coefficients)
LPF_lookup(sel) == 4
LPF_lookup_HS(sel) == 2

\* ---------------------------------------------------------------- inputs
\* What the rest of the firmware leaves for one Sensor_PID call: gyroADC[]
\* (ReadGyros), RCinputs[] (the receiver code), accVertf (the accelerometer
\* code) and the loop period in T1 counts.
NoSticks == [AILERON |-> 0, ELEVATOR |-> 0, RUDDER |-> 0]
NoGyros == [ROLL |-> 0, PITCH |-> 0, YAW |-> 0]

TickInputs ==
    { [gyro |-> NoGyros, rc |-> NoSticks, acc |-> 0, period |-> 3571],
      [gyro |-> NoGyros, rc |-> NoSticks, acc |-> IntToFloat(50), period |-> 5000],
      [gyro |-> [ROLL |-> 100, PITCH |-> 0, YAW |-> -7], rc |-> NoSticks,
       acc |-> 0, period |-> 3571],
      [gyro |-> [ROLL |-> 300, PITCH |-> -300, YAW |-> 100],
       rc |-> [AILERON |-> -1000, ELEVATOR |-> 700, RUDDER |-> -65],
       acc |-> IntToFloat(50), period |-> 5000],
      [gyro |-> [ROLL |-> 300, PITCH |-> -300, YAW |-> 100], rc |-> NoSticks,
       acc |-> IntToFloat(-50) - 1, period |-> 3000],
      [gyro |-> [ROLL |-> -7, PITCH |-> 100, YAW |-> 300],
       rc |-> [AILERON |-> 1000, ELEVATOR |-> -1000, RUDDER |-> 500],
       acc |-> IntToFloat(50), period |-> 3571] }

\* angle[] as left by the IMU (1/100 degree)
AngleInputs ==
    { [ROLL |-> 0, PITCH |-> 0], [ROLL |-> 1500, PITCH |-> -700] }

\* quotient left by a division by zero
DivZeroOutcomes == {-1, 0, 1}

\* ---------------------------------------------------------------- state
VARIABLES
    Config,             \* the settings pid.c reads
    PID_Gyros,          \* int16_t [profile][axis]
    PID_ACCs,           \* int16_t [profile][axis]
    IntegralGyro,       \* int32_t [profile][axis]
    IntegralAccVertf,   \* float [profile]
    gyroSmooth,         \* float [axis]
    PID_AvgGyro,        \* int32_t [axis]
    gyroADC,            \* int16_t [axis] (gyros.c, written in place)
    accVertf,           \* float (acc.c)
    LoopCount,          \* main.c's count of loops since the last output
    pc,                 \* where the main loop is: "idle", "count", "reset"
    P_term,             \* PID_gyro_temp1/2 of the last Calculate_PID, before the I-term is added
    lastK,              \* LoopCount read by the last Calculate_PID
    lastS,              \* PID_AvgGyro read by the last Calculate_PID
    divZero,            \* a division by a zero LoopCount has been executed
    winTicks,           \* Sensor_PID calls that added to PID_AvgGyro since it was last zeroed
    zeroIn,             \* every Sensor_PID call so far had zero gyros and zero sticks
    nTicks,             \* Sensor_PID calls so far
    nCalcs,             \* Calculate_PID calls so far
    probe               \* inputs and results of the single-function specifications

vars == << Config, PID_Gyros, PID_ACCs, IntegralGyro, IntegralAccVertf, gyroSmooth,
           PID_AvgGyro, gyroADC, accVertf, LoopCount, pc, P_term, lastK, lastS,
           divZero, winTicks, zeroIn, nTicks, nCalcs, probe >>

ZeroPA == [p \in Profiles |-> [a \in Axes |-> 0]]
ZeroA == [a \in Axes |-> 0]
ZeroP == [p \in Profiles |-> 0]

\* the globals of pid.c are zero-initialised
InitState ==
    /\ PID_Gyros = ZeroPA
    /\ PID_ACCs = ZeroPA
    /\ IntegralGyro = ZeroPA
    /\ IntegralAccVertf = ZeroP
    /\ gyroSmooth = ZeroA
    /\ PID_AvgGyro = ZeroA
    /\ gyroADC = ZeroA
    /\ accVertf = 0
    /\ LoopCount = 0
    /\ pc = "idle"
    /\ P_term = ZeroPA
    /\ lastK = 0
    /\ lastS = ZeroA
    /\ divZero = FALSE
    /\ winTicks = 0
    /\ zeroIn = TRUE
    /\ nTicks = 0
    /\ nCalcs = 0

Init ==
    /\ Config \in Configs
    /\ InitState
    /\ probe = [kind |-> "none"]

\* ---------------------------------------------------------------- Sensor_PID
\* RCinputsAxis[]: the roll stick is reversed with respect to its gyro
RCinputsAxis(rc) ==
    [ROLL |-> Wrap16(-rc.AILERON), PITCH |-> rc.ELEVATOR, YAW |-> rc.RUDDER]

\* variant: the shift is by the setting itself, not by its distance from 6
StickMap_ShiftBySetting(x, rate) ==
    IF rate <= 6 THEN Wrap16(Shr(x, rate)) ELSE Shl16(x, rate - 6)

\* stick rate divider: 0 is slowest, 7 is fastest
StickMap(x, rate) ==
    IF rate <= 6 THEN Wrap16(Shr(x, 4 - (rate - 2))) ELSE Shl16(x, rate - 6)

\* gyro LPF: new value of gyroSmooth[axis] for the reading g
GyroLPF(smooth, g) ==
    LET tempf1 == IF Config.Servo_fast
                  THEN LPF_lookup_HS(Config.Gyro_LPF)
                  ELSE LPF_lookup(Config.Gyro_LPF)
    IN  IF Config.Gyro_LPF # NOFILTER
        THEN RoundDiv(smooth * (tempf1 - 1) + IntToFloat(g), tempf1)
        ELSE IntToFloat(g)

\* variant: the increment is used as it is, whatever the loop period
ScaleByPeriod_Unscaled(temp, period) == temp

\* P1_temp / P2_temp scaled by factor = period / STANDARDLOOP and demoted to
\* int32_t. The float product is taken as the exact quotient: for every period
\* used below and every |temp| <= 4000 the float computation truncates to the
\* same integer.
ScaleByPeriod(temp, period) == TruncDiv(temp * period, STANDARDLOOP)

\* variant: only the upper limit is applied
ConstrainIntegral_UpperOnly(v, lim) == IF v > lim THEN lim ELSE v

\* limit an I-term to the user-set limit lim
ConstrainIntegral(v, lim) ==
    LET a == IF v > lim THEN lim ELSE v
    IN  IF a < -lim THEN -lim ELSE a

\* the decimator: shrink the Z integral by Config.AccVertFilter / 10000
DecayAccVert(v) == RoundDiv(v * (DECAY_DIV - Config.AccVertFilter), DECAY_DIV)

\* variant: the Z-acc I-term is limited by the output-limit table
AccVertLimit_Output(p) == Config.Raw_I_Limits[p][ZED]

\* the limit of the Z-acc I-term of profile p
AccVertLimit(p) == Config.Raw_I_Constrain[p][ZED]

\* limit the Z-acc I-term of profile p
ConstrainAccVert(v, p) ==
    LET tempf1 == IntToFloat(AccVertLimit(p))
        a == IF v > tempf1 THEN tempf1 ELSE v
    IN  IF a < -tempf1 THEN -tempf1 ELSE a

\* the whole of Sensor_PID(period) but the noise measure, which nothing else reads
Sensor_PID(period, gyroIn, rc, accIn, wide) ==
    LET sticks == RCinputsAxis(rc)
        smooth == [a \in Axes |-> GyroLPF(gyroSmooth[a], gyroIn[a])]
        adc == [a \in Axes |-> Wrap16(FloatToInt(smooth[a]))]
        temp == [p \in Profiles |-> [a \in Axes |->
                    ScaleByPeriod(IntArith(adc[a] + StickMap(sticks[a], Config.Rate[p][a]), wide),
                                  period)]]
    IN  /\ gyroSmooth' = smooth
        /\ gyroADC' = adc
        /\ IntegralGyro' = [p \in Profiles |-> [a \in Axes |->
                ConstrainIntegral(Wrap32(IntegralGyro[p][a] + temp[p][a]),
                                  Config.Raw_I_Constrain[p][a])]]
        /\ PID_AvgGyro' = [a \in Axes |-> Wrap32(PID_AvgGyro[a] + adc[a])]
        /\ accVertf' = accIn
        /\ IntegralAccVertf' = [p \in Profiles |->
                ConstrainAccVert(DecayAccVert(IntegralAccVertf[p] + accIn), p)]
        /\ UNCHANGED << Config, PID_Gyros, PID_ACCs, LoopCount, P_term, lastK, lastS, divZero >>

\* ---------------------------------------------------------------- Calculate_PID
\* average gyro reading for the P-term; dz is what a division by zero leaves
AvgGyro(a, dz) ==
    IF LoopCount = 0 THEN dz ELSE Wrap16(TruncDiv(PID_AvgGyro[a], LoopCount))

\* variant: the sum is kept after the average is taken
AvgReset_Keep(a) == PID_AvgGyro[a]

\* PID_AvgGyro[axis] after the average is taken
AvgReset(a) == 0

\* variant: PID_gyro_temp is not reset for roll and pitch
YawBias_EveryAxis(p, a) == Shl16(Config.Yaw_trim[p], 6)

\* starting value of PID_gyro_temp: the yaw trim, or zero
YawBias(p, a) == IF a = YAW THEN Shl16(Config.Yaw_trim[p], 6) ELSE 0

\* gyro P-term: PID_gyro_temp after the multiplication by 3
GyroPTerm(p, a, avg, wide) ==
    Wrap32(Wrap32(YawBias(p, a) + IntArith(avg * Config.P_mult[p][a], wide)) * 3)

\* gyro I-term: PID_Gyro_I_actual after the output limits
GyroITerm(p, a) ==
    LET actual == Shr(Wrap32(IntegralGyro[p][a] * Config.I_mult[p][a]), 5)
        lim == Config.Raw_I_Limits[p][a]
    IN  IF actual > lim THEN lim
        ELSE IF actual < -lim THEN -lim
        ELSE actual

\* PID_Gyros[p][axis]
GyroOut(p, a, avg, wide) ==
    Wrap16(Shr(Wrap32(GyroPTerm(p, a, avg, wide) + GyroITerm(p, a)), PID_SCALE))

\* PID_ACCs[p][axis] for roll and pitch
AccLevel(p, a, angle, wide) ==
    LET temp1 == IntArith(angle[a] - Config.L_trim[p][a], wide)
    IN  Wrap16(Shr(Wrap32(temp1 * Config.L_mult[p][a]), 8))

\* PID_ACCs[p][YAW]: the Acc-Z PI value
AccZed(p) ==
    LET temp1 == Wrap32(Wrap32(FloatToInt(-accVertf) * Config.L_mult[p][YAW]) * 3)
        raw == Shr(Wrap32(FloatToInt(-IntegralAccVertf[p]) * Config.I_mult[p][ZED]), 2)
        lim == Config.Raw_I_Limits[p][ZED]
        hi == IF raw > lim THEN lim ELSE raw
        temp2 == IF hi < -lim THEN -lim ELSE hi
    IN  Wrap16(Shr(Wrap32(temp1 + temp2), PID_SCALE))

\* variant: the gyro I-terms are cleared once they have been used
Calc_IntegralGyro_Clear(p, a) == 0

\* what Calculate_PID leaves in the integrators and in LoopCount: it assigns none of them
Calc_IntegralGyro(p, a) == IntegralGyro[p][a]
Calc_IntegralAccVertf(p) == IntegralAccVertf[p]
Calc_LoopCount == LoopCount

Calculate_PID(angle, dz, wide) ==
    LET avg == [a \in Axes |-> AvgGyro(a, dz)]
    IN  /\ gyroADC' = avg
        /\ PID_AvgGyro' = [a \in Axes |-> AvgReset(a)]
        /\ P_term' = [p \in Profiles |-> [a \in Axes |-> GyroPTerm(p, a, avg[a], wide)]]
        /\ PID_Gyros' = [p \in Profiles |-> [a \in Axes |-> GyroOut(p, a, avg[a], wide)]]
        /\ PID_ACCs' = [p \in Profiles |-> [a \in Axes |->
                IF a = YAW THEN AccZed(p) ELSE AccLevel(p, a, angle, wide)]]
        /\ IntegralGyro' = [p \in Profiles |-> [a \in Axes |-> Calc_IntegralGyro(p, a)]]
        /\ IntegralAccVertf' = [p \in Profiles |-> Calc_IntegralAccVertf(p)]
        /\ LoopCount' = Calc_LoopCount
        /\ lastK' = LoopCount
        /\ lastS' = PID_AvgGyro
        /\ divZero' = (divZero \/ LoopCount = 0)
        /\ UNCHANGED << Config, gyroSmooth, accVertf >>

\* ---------------------------------------------------------------- main loop
\* One loop runs Sensor_PID and counts it; an output cycle runs Calculate_PID
\* and clears the count. Nothing in pid.c keeps Calculate_PID from running
\* with LoopCount = 0.
Tick ==
    /\ pc = "idle"
    /\ nTicks < MaxTicks
    /\ LoopCount < MaxLoop
    /\ \E in \in TickInputs, wide \in BOOLEAN :
          /\ Sensor_PID(in.period, in.gyro, in.rc, in.acc, wide)
          /\ zeroIn' = (zeroIn /\ in.gyro = NoGyros /\ in.rc = NoSticks)
    /\ winTicks' = winTicks + 1
    /\ nTicks' = nTicks + 1
    /\ pc' = "count"
    /\ UNCHANGED << nCalcs, probe >>

CountTick ==
    /\ pc = "count"
    /\ LoopCount' = LoopCount + 1
    /\ pc' = "idle"
    /\ UNCHANGED << Config, PID_Gyros, PID_ACCs, IntegralGyro, IntegralAccVertf, gyroSmooth,
                    PID_AvgGyro, gyroADC, accVertf, P_term, lastK, lastS, divZero,
                    winTicks, zeroIn, nTicks, nCalcs, probe >>

Combine ==
    /\ pc = "idle"
    /\ nCalcs < MaxCalcs
    /\ \E angle \in AngleInputs, dz \in DivZeroOutcomes, wide \in BOOLEAN :
          Calculate_PID(angle, dz, wide)
    /\ winTicks' = 0
    /\ nCalcs' = nCalcs + 1
    /\ pc' = "reset"
    /\ UNCHANGED << zeroIn, nTicks, probe >>

ResetCount ==
    /\ pc = "reset"
    /\ LoopCount' = 0
    /\ pc' = "idle"
    /\ UNCHANGED << Config, PID_Gyros, PID_ACCs, IntegralGyro, IntegralAccVertf, gyroSmooth,
                    PID_AvgGyro, gyroADC, accVertf, P_term, lastK, lastS, divZero,
                    winTicks, zeroIn, nTicks, nCalcs, probe >>

Next == Tick \/ CountTick \/ Combine \/ ResetCount

Spec == Init /\ [][Next]_vars

\* ---------------------------------------------------------------- the stick rate map alone
\* Raw stick values over the whole int16_t range
StickSamples ==
    { -32768, -30000, -16385, -16384, -1000, -65, -64, -63, -1,
      1, 63, 64, 65, 1000, 16383, 16384, 30000, 32767 }

InitStick ==
    /\ Config = CfgNominal
    /\ InitState
    /\ probe \in [kind : {"stick"}, x : StickSamples, s : 0..7, t : 0..7,
                  ms : {0}, mt : {0}, done : {FALSE}]

\* the divider of Sensor_PID applied to x under the settings s and t
MapSticks ==
    /\ probe.kind = "stick"
    /\ ~probe.done
    /\ probe' = [probe EXCEPT !.ms = StickMap(probe.x, probe.s),
                              !.mt = StickMap(probe.x, probe.t),
                              !.done = TRUE]
    /\ UNCHANGED << Config, PID_Gyros, PID_ACCs, IntegralGyro, IntegralAccVertf, gyroSmooth,
                    PID_AvgGyro, gyroADC, accVertf, LoopCount, pc, P_term, lastK, lastS,
                    divZero, winTicks, zeroIn, nTicks, nCalcs >>

NextStick == MapSticks

SpecStick == InitStick /\ [][NextStick]_vars

\* ---------------------------------------------------------------- constant input, fixed period
PeriodGyros == {-3, 0, 1, 100}
PeriodSticks == {-64, 0, 5}
Periods == {1000, 2000, 3571, 4000, 7142}

InitPeriod ==
    /\ Config = CfgWide
    /\ InitState
    /\ probe \in [kind : {"period"}, gyro : PeriodGyros, stick : PeriodSticks,
                  period : Periods]

\* Sensor_PID run again with the same readings and the same period
PeriodTick ==
    /\ probe.kind = "period"
    /\ nTicks < MaxPeriodTicks
    /\ \E wide \in BOOLEAN :
          Sensor_PID(probe.period, [a \in Axes |-> probe.gyro],
                     [AILERON |-> probe.stick, ELEVATOR |-> probe.stick, RUDDER |-> probe.stick],
                     0, wide)
    /\ nTicks' = nTicks + 1
    /\ winTicks' = winTicks + 1
    /\ UNCHANGED << pc, zeroIn, nCalcs, probe >>

NextPeriod == PeriodTick

SpecPeriod == InitPeriod /\ [][NextPeriod]_vars

\* the raw increment (smoothed gyro + mapped stick) of profile p, axis a in SpecPeriod
PeriodIncrement(p, a) ==
    LET sticks == RCinputsAxis([AILERON |-> probe.stick, ELEVATOR |-> probe.stick,
                                RUDDER |-> probe.stick])
    IN  probe.gyro + StickMap(sticks[a], Config.Rate[p][a])

\* ================================================================ claims
ZeroGains ==
    /\ \A p \in Profiles, a \in Axes : Config.P_mult[p][a] = 0 /\ Config.L_mult[p][a] = 0
    /\ \A p \in Profiles, a \in Axes \cup {ZED} : Config.I_mult[p][a] = 0

\* the step is a call of Calculate_PID / of Sensor_PID
CalcStep == pc = "idle" /\ pc' = "reset"
SensorStep == pc = "idle" /\ pc' = "count"

\* C1: after every Sensor_PID and Calculate_PID call, every gyro integrator
\* lies within -Raw_I_Constrain[p][axis] .. +Raw_I_Constrain[p][axis].
C1_IntegralGyroConstrained ==
    \A p \in Profiles, a \in Axes :
        /\ IntegralGyro[p][a] <= Config.Raw_I_Constrain[p][a]
        /\ IntegralGyro[p][a] >= -Config.Raw_I_Constrain[p][a]

\* C1 witness: both limits have stopped an integrator that was driven past them
C1_Witness ==
    /\ Config = CfgTight
    /\ nTicks >= 1
    /\ IntegralGyro[P1][ROLL] = Config.Raw_I_Constrain[P1][ROLL]
    /\ IntegralGyro[P1][PITCH] = -Config.Raw_I_Constrain[P1][PITCH]

\* C2 as stated: after every Sensor_PID call each vertical integrator lies
\* within +/- Raw_I_Limits[p][ZED], the output-limit table.
C2_AccVertWithinOutputLimits ==
    \A p \in Profiles :
        Abs(IntegralAccVertf[p]) <= IntToFloat(Config.Raw_I_Limits[p][ZED])

\* C2 amended: after every Sensor_PID call each vertical integrator lies
\* within +/- Raw_I_Constrain[p][ZED], the integral-constrain table.
C2_AccVertWithinConstrain ==
    \A p \in Profiles :
        Abs(IntegralAccVertf[p]) <= IntToFloat(Config.Raw_I_Constrain[p][ZED])

\* C2 witness: the vertical integrator of P1 stands at its constrain value,
\* above the output limit of the same profile
C2_Witness ==
    /\ nTicks >= 2
    /\ Config.Raw_I_Constrain[P1][ZED] > Config.Raw_I_Limits[P1][ZED]
    /\ IntegralAccVertf[P1] = IntToFloat(Config.Raw_I_Constrain[P1][ZED])

\* C3 as stated: with K >= 1 ticks since the previous Calculate_PID, the
\* proportional term of every axis and profile is P_gain * 3 * (S / K), S the
\* sum of the K filtered samples and / the integer division.
C3_PTermIsGainTimesAverage ==
    (nCalcs >= 1 /\ lastK >= 1) =>
        \A p \in Profiles, a \in Axes :
            P_term[p][a] = Config.P_mult[p][a] * 3 * TruncDiv(lastS[a], lastK)

\* C3 on roll and pitch alone, where no trim enters the term: with K >= 1 the
\* proportional term is P_gain * 3 * (S / K).
C3_PTermRollPitch ==
    (nCalcs >= 1 /\ lastK >= 1) =>
        \A p \in Profiles, a \in {ROLL, PITCH} :
            P_term[p][a] = Config.P_mult[p][a] * 3 * TruncDiv(lastS[a], lastK)

\* C6 as stated: zero sticks, zero gyros and zero gains give zero outputs on
\* every axis of both profiles after Calculate_PID, whatever the trims are.
C6_ZeroInZeroOut ==
    (ZeroGains /\ zeroIn /\ nCalcs >= 1) =>
        (PID_Gyros = ZeroPA /\ PID_ACCs = ZeroPA)

\* C6 amended: zero sticks, zero gyros and zero gains give zero outputs except
\* for PID_Gyros[p][YAW], which is three times the yaw trim of the profile.
C6_ZeroInTrimOut ==
    (ZeroGains /\ zeroIn /\ nCalcs >= 1) =>
        /\ PID_ACCs = ZeroPA
        /\ \A p \in Profiles :
              /\ PID_Gyros[p][ROLL] = 0
              /\ PID_Gyros[p][PITCH] = 0
              /\ PID_Gyros[p][YAW] = 3 * Config.Yaw_trim[p]

\* C6 witness: zero gains and inputs, ticks run, Calculate_PID run, and the
\* yaw output carries the trim
C6_Witness ==
    /\ ZeroGains /\ zeroIn /\ nCalcs >= 1 /\ lastK >= 1
    /\ accVertf # 0
    /\ Config.Yaw_trim[P1] = 5
    /\ PID_Gyros[P1][YAW] = 15

\* C7 as stated: for roll and pitch, PID_Gyros[p][axis] is
\* (avg * P_gain * 3 + clamp((IntegralGyro * I_gain) >> 5, +/-Raw_I_Limits)) >> 6
\* demoted to 16 bits.
C7_GyroOutputFormula ==
    (pc = "reset" /\ lastK >= 1) =>
        \A p \in Profiles, a \in {ROLL, PITCH} :
            LET avg == Wrap16(TruncDiv(lastS[a], lastK))
                iraw == Shr(IntegralGyro[p][a] * Config.I_mult[p][a], 5)
                lim == Config.Raw_I_Limits[p][a]
                iterm == IF iraw > lim THEN lim ELSE IF iraw < -lim THEN -lim ELSE iraw
            IN  PID_Gyros[p][a] = Wrap16(Shr(avg * Config.P_mult[p][a] * 3 + iterm, 6))

\* C7, the scenario: roll gyro 100, P-gain 10, I-gain 0, one tick, no stick
\* gives the proportional term 3000 and the output 46.
C7_Scenario ==
    (/\ pc = "reset" /\ lastK = 1 /\ lastS[ROLL] = 100
     /\ Config.P_mult[P1][ROLL] = 10 /\ Config.I_mult[P1][ROLL] = 0) =>
        (P_term[P1][ROLL] = 3000 /\ PID_Gyros[P1][ROLL] = 46)

\* the scenario of C7 is reached
C7_ScenarioReached ==
    /\ pc = "reset" /\ lastK = 1 /\ lastS[ROLL] = 100 /\ nTicks = 1
    /\ Config.P_mult[P1][ROLL] = 10 /\ Config.I_mult[P1][ROLL] = 0
    /\ PID_Gyros[P1][ROLL] = 46

\* C8 as stated: Calculate_PID never executes the averaging division with a
\* zero LoopCount (it stops in a fatal condition instead).
C8_NoDivisionByZero == ~divZero

C10_IntegratorsFrame ==
    [][ /\ CalcStep =>
              (IntegralGyro' = IntegralGyro /\ IntegralAccVertf' = IntegralAccVertf)
        /\ (IntegralGyro' # IntegralGyro \/ IntegralAccVertf' # IntegralAccVertf) =>
              SensorStep ]_vars

\* C10 witness: Calculate_PID has run over integrators that are not zero
C10_Witness ==
    /\ pc = "reset"
    /\ IntegralGyro[P1][ROLL] # 0 /\ IntegralGyro[P1][YAW] # 0
    /\ IntegralAccVertf[P2] # 0

C5_StickMonotoneAll ==
    (probe.done /\ probe.s < probe.t) => Abs(probe.ms) <= Abs(probe.mt)

\* C5 amended: the same for the stick values whose double fits an int16_t,
\* -16384 <= x <= 16383.
C5_StickMonotoneInRange ==
    (probe.done /\ probe.s < probe.t /\ probe.x >= -16384 /\ probe.x <= 16383) =>
        Abs(probe.ms) <= Abs(probe.mt)

\* C5 witness: the largest stick value that setting 7 still doubles
C5_Witness ==
    /\ probe.done /\ probe.s = 6 /\ probe.t = 7
    /\ probe.x = 16383 /\ probe.ms = 16383 /\ probe.mt = 32766

====
